---- MODULE Spec2Model ----
(***************************************************************************)
(* Model of the workout parser, the PR / strength-increase detector and    *)
(* the search-index maintainer of the AI fitness coach (src/app.py,        *)
(* src/workout_parser.py), file-backed mode (USE_DATABASE = False).        *)
(*                                                                         *)
(* A date string is a record [day, time]: day = 0 is a string that none of *)
(* the accepted strptime formats matches, time = 0 is a date-only string   *)
(* (parsed as midnight).  An exercise line is the token structure the      *)
(* regular expressions of parse_exercise_line extract: a name, the header  *)
(* weight and the list of rep-list parts.  A workout text is a sequence of *)
(* lines plus a flag telling whether the raw text carries surrounding      *)
(* whitespace that parse_workout_entries strips.                           *)
(***************************************************************************)
EXTENDS Integers, Sequences, FiniteSets, TLC

VARIABLES
    now,        \* datetime.now(): [day, time]
    log,        \* workouts.md: the raw entries, newest first
    index,      \* search_index.json
    threads,    \* background _rebuild threads in flight
    last,       \* the last operation that ran, with its arguments and result
    flags,      \* result of the last get_workouts evaluation
    requests    \* number of requests served so far

vars == <<now, log, index, threads, last, flags, requests>>

----------------------------------------------------------------------------
(* Bounds of the model *)

MaxLog == 2          \* longest workout log in Spec
MaxThreads == 2      \* most background rebuild threads in flight
MaxDay == 2          \* calendar days the clock covers in Spec
MaxPRLog == 3        \* longest workout list given to get_workouts in SpecPR
MaxRequests == 3     \* requests served in one behaviour of Spec

(* Program constants *)

IndexCap == 20       \* [:20] on every category list

----------------------------------------------------------------------------
(* Small helpers *)

Min(a, b) == IF a < b THEN a ELSE b

Max(a, b) == IF a > b THEN a ELSE b

Range(s) == {s[i] : i \in 1..Len(s)}

\* s[:n]
Take(s, n) == SubSeq(s, 1, Min(n, Len(s)))

\* list.remove(x) when x in list: drops the first occurrence only
RECURSIVE RemoveFirst(_, _)
RemoveFirst(s, x) ==
    IF s = <<>> THEN <<>>
    ELSE IF Head(s) = x THEN Tail(s)
    ELSE <<Head(s)>> \o RemoveFirst(Tail(s), x)

RECURSIVE SeqMax(_)
SeqMax(s) == IF Len(s) = 1 THEN s[1] ELSE Max(s[1], SeqMax(Tail(s)))

RECURSIVE Flatten(_)
Flatten(ss) == IF ss = <<>> THEN <<>> ELSE Head(ss) \o Flatten(Tail(ss))


----------------------------------------------------------------------------
(* workout_parser.py *)

\* The weight slot of a rep-list part that is a bare integer
Bare == -1

\* str.lower().strip() on the exercise names of the model
LowerStrip(name) ==
    CASE name = "Bench Press" -> "bench press"
      [] name = " squat" -> "squat"
      [] OTHER -> name

\* One rep-list part: "<w> * <r>" sets the current weight, a bare "<r>" uses it
RECURSIVE ParseParts(_, _)
ParseParts(parts, current_weight) ==
    IF parts = <<>> THEN <<>>
    ELSE LET p == Head(parts) IN
         IF p.w # Bare
         THEN <<[weight |-> p.w, reps |-> p.r]>> \o ParseParts(Tail(parts), p.w)
         ELSE <<[weight |-> current_weight, reps |-> p.r]>>
                  \o ParseParts(Tail(parts), current_weight)

\* parse_exercise_line: <<>> models None, <<e>> a parsed exercise
ParseExerciseLine(line) ==
    CASE line.kind = "skip" -> <<>>
      [] line.kind = "bw" ->
            LET reps == [i \in 1..Len(line.parts) |-> line.parts[i].r] IN
            IF reps = <<>> THEN <<>>
            ELSE <<[exercise |-> line.exercise,
                    sets |-> [i \in 1..Len(reps) |-> [weight |-> 0, reps |-> reps[i]]],
                    first_weight |-> 0,
                    first_reps |-> reps[1],
                    max_weight |-> 0,
                    max_reps |-> SeqMax(reps),
                    is_bodyweight |-> TRUE]>>
      [] OTHER ->
            LET sets == ParseParts(line.parts, line.weight) IN
            IF sets = <<>> THEN <<>>
            ELSE <<[exercise |-> line.exercise,
                    sets |-> sets,
                    first_weight |-> line.weight,
                    first_reps |-> sets[1].reps,
                    max_weight |-> SeqMax([i \in 1..Len(sets) |-> sets[i].weight]),
                    max_reps |-> SeqMax([i \in 1..Len(sets) |-> sets[i].reps]),
                    is_bodyweight |-> line.weight = 0]>>

\* parse_workout_text(text)['exercises']
ParseWorkoutText(text) ==
    Flatten([i \in 1..Len(text.lines) |-> ParseExerciseLine(text.lines[i])])

\* exercise_mapping.json as loaded by load_exercise_mapping: name -> muscle groups
ExerciseMapping(name) ==
    CASE name = "bench press" -> {"chest"}
      [] name = "deadlift" -> {"back", "legs", "glutes"}
      [] OTHER -> {}

\* normalize_exercise_name(name)[1]
NormalizeGroups(name) == ExerciseMapping(LowerStrip(name))

----------------------------------------------------------------------------
(* Dates *)

NoDate == -1

BadDate == [day |-> 0, time |-> 0]

\* time = 0 is a date-only string, time = 1 a string with a time of day
DateValue(d) == 2 * d.day + d.time

\* The strptime loop over the accepted formats with the plausibility filter:
\* a value two or more days after today is discarded
ParseDate(d, today) ==
    IF d.day = 0 THEN NoDate
    ELSE IF DateValue(d) - DateValue(today) >= 2 * 2 THEN NoDate
    ELSE DateValue(d)

----------------------------------------------------------------------------
(* History reconstruction and PR / strength-increase detection             *)

EmptyHistory == [k \in {} |-> 0]

\* A variant that records the latest weight as best_weight without comparing
MutFoldExercise(h, ex) ==
    LET k == LowerStrip(ex.exercise) IN
    IF k \notin DOMAIN h
    THEN h @@ (k :> [best_weight |-> ex.max_weight,
                     best_reps |-> ex.first_reps,
                     best_weight_reps |-> IF ex.max_weight > 0 THEN ex.first_reps ELSE 0])
    ELSE LET h1 == [h EXCEPT ![k].best_weight = ex.max_weight,
                             ![k].best_weight_reps = ex.first_reps]
         IN IF ex.first_reps > h1[k].best_reps
            THEN [h1 EXCEPT ![k].best_reps = ex.first_reps]
            ELSE h1

\* One exercise folded into history_before
FoldExercise(h, ex) ==
    LET k == LowerStrip(ex.exercise) IN
    IF k \notin DOMAIN h
    THEN h @@ (k :> [best_weight |-> ex.max_weight,
                     best_reps |-> ex.first_reps,
                     best_weight_reps |-> IF ex.max_weight > 0 THEN ex.first_reps ELSE 0])
    ELSE LET h1 == IF ex.max_weight > h[k].best_weight
                   THEN [h EXCEPT ![k].best_weight = ex.max_weight,
                                  ![k].best_weight_reps = ex.first_reps]
                   ELSE h
         IN IF ex.first_reps > h1[k].best_reps
            THEN [h1 EXCEPT ![k].best_reps = ex.first_reps]
            ELSE h1

RECURSIVE FoldExercises(_, _)
FoldExercises(h, exs) ==
    IF exs = <<>> THEN h
    ELSE FoldExercises(FoldExercise(h, Head(exs)), Tail(exs))

\* A variant that also folds the workouts dated at the reference date
RECURSIVE MutHistoryBefore(_, _, _, _)
MutHistoryBefore(h, workouts, workout_date, today) ==
    IF workouts = <<>> THEN h
    ELSE LET prev == Head(workouts)
             prev_date == ParseDate(prev.date, today)
         IN IF prev_date # NoDate /\ prev_date <= workout_date
            THEN MutHistoryBefore(FoldExercises(h, ParseWorkoutText(prev.text)),
                                  Tail(workouts), workout_date, today)
            ELSE MutHistoryBefore(h, Tail(workouts), workout_date, today)

\* history_before for a reference date value: the workouts whose date parses
\* and is strictly earlier, folded in list order
RECURSIVE HistoryBefore(_, _, _, _)
HistoryBefore(h, workouts, workout_date, today) ==
    IF workouts = <<>> THEN h
    ELSE LET prev == Head(workouts)
             prev_date == ParseDate(prev.date, today)
         IN IF prev_date # NoDate /\ prev_date < workout_date
            THEN HistoryBefore(FoldExercises(h, ParseWorkoutText(prev.text)),
                               Tail(workouts), workout_date, today)
            ELSE HistoryBefore(h, Tail(workouts), workout_date, today)

\* A variant with two independent ifs, the PR test being >=
MutEvalExercise(ex, h) ==
    LET k == LowerStrip(ex.exercise)
        is_bodyweight == ex.is_bodyweight \/ ex.max_weight = 0
    IN IF k \notin DOMAIN h THEN [pr |-> FALSE, si |-> FALSE]
       ELSE IF is_bodyweight
            THEN [pr |-> ex.first_reps > h[k].best_reps, si |-> FALSE]
            ELSE [pr |-> ex.max_weight >= h[k].best_weight,
                  si |-> ex.max_weight = h[k].best_weight
                         /\ ex.first_reps > h[k].best_weight_reps]

\* The if / elif of one exercise of the workout under test against history_before
EvalExercise(ex, h) ==
    LET k == LowerStrip(ex.exercise)
        current_weight == ex.max_weight
        current_reps == ex.first_reps
        is_bodyweight == ex.is_bodyweight \/ current_weight = 0
    IN IF k \notin DOMAIN h THEN [pr |-> FALSE, si |-> FALSE]
       ELSE IF is_bodyweight
            THEN [pr |-> current_reps > h[k].best_reps, si |-> FALSE]
            ELSE IF current_weight > h[k].best_weight
                 THEN [pr |-> TRUE, si |-> FALSE]
                 ELSE [pr |-> FALSE,
                       si |-> current_weight = h[k].best_weight
                              /\ current_reps > h[k].best_weight_reps]

\* A variant that compares a workout without a usable date to the history of
\* all dated workouts
MutDetectWorkout(workouts, i, today) ==
    LET workout == workouts[i]
        workout_date == ParseDate(workout.date, today)
        h == HistoryBefore(EmptyHistory, workouts,
                           IF workout_date = NoDate THEN DateValue(today) + 4
                           ELSE workout_date, today)
        exs == ParseWorkoutText(workout.text)
        evals == [j \in 1..Len(exs) |-> EvalExercise(exs[j], h)]
    IN [dated |-> workout_date # NoDate,
        history |-> h,
        exercises |-> exs,
        evals |-> evals,
        has_pr |-> \E j \in 1..Len(evals) : evals[j].pr,
        has_strength_increase |-> \E j \in 1..Len(evals) : evals[j].si]

\* The per-workout loop of get_workouts / build_search_index: the history a
\* workout is compared to and the evaluation of each of its exercises
DetectWorkout(workouts, i, today) ==
    LET workout == workouts[i]
        workout_date == ParseDate(workout.date, today)
        h == IF workout_date = NoDate THEN EmptyHistory
             ELSE HistoryBefore(EmptyHistory, workouts, workout_date, today)
        exs == ParseWorkoutText(workout.text)
        evals == IF workout_date = NoDate THEN <<>>
                 ELSE [j \in 1..Len(exs) |-> EvalExercise(exs[j], h)]
    IN [dated |-> workout_date # NoDate,
        history |-> h,
        exercises |-> exs,
        evals |-> evals,
        has_pr |-> \E j \in 1..Len(evals) : evals[j].pr,
        has_strength_increase |-> \E j \in 1..Len(evals) : evals[j].si]

DetectAll(workouts, today) ==
    [i \in 1..Len(workouts) |-> DetectWorkout(workouts, i, today)]

----------------------------------------------------------------------------
(* Inputs of the model: exercise lines, texts, dates *)

Weighted(name, weight, reps) ==
    [kind |-> "wr", exercise |-> name, weight |-> weight,
     parts |-> <<[w |-> Bare, r |-> reps]>>]

Bodyweight(name, reps) ==
    [kind |-> "bw", exercise |-> name, weight |-> 0,
     parts |-> <<[w |-> Bare, r |-> reps]>>]

\* "pull-up - 0 * 8, 20 * 5": starts at weight 0 and adds weight within the line
MixedLine ==
    [kind |-> "wr", exercise |-> "pull-up", weight |-> 0,
     parts |-> <<[w |-> Bare, r |-> 8], [w |-> 20, r |-> 5]>>]

Text(lines) == [lines |-> lines, pad |-> FALSE]

DateOnly(day) == [day |-> day, time |-> 0]

PRTexts ==
    {Text(<<Weighted("bench press", 100, 5)>>),
     Text(<<Weighted("bench press", 105, 5)>>),
     Text(<<Weighted("bench press", 100, 7)>>),
     Text(<<Weighted("Bench Press", 105, 7), Bodyweight("pull-up", 10)>>),
     Text(<<Bodyweight("pull-up", 8)>>),
     Text(<<MixedLine>>)}

PRDates == {BadDate} \cup {DateOnly(d) : d \in 1..MaxDay}

PRWorkouts == {[date |-> d, text |-> t] : d \in PRDates, t \in PRTexts}

PRLogs == UNION {[1..n -> PRWorkouts] : n \in 1..MaxPRLog}

----------------------------------------------------------------------------
(* State *)

NoIndex ==
    [present |-> FALSE, pr |-> <<>>, chest |-> <<>>, full |-> <<>>,
     leg |-> <<>>, upper |-> <<>>, hash |-> <<>>, count |-> 0]

NoData == [text |-> Text(<<>>), has_pr |-> FALSE]

LastNone ==
    [op |-> "none", branch |-> "", ret |-> NoIndex,
     pos |-> 0, data |-> NoData, operation |-> ""]

----------------------------------------------------------------------------
(* The workout log and its fingerprint *)

\* str.strip() on an entry's text as done by parse_workout_entries
Strip(text) == [text EXCEPT !.pad = FALSE]

\* parse_workout_entries(content): the entries with their stripped texts
Entries(l) == [i \in 1..Len(l) |-> [date |-> l[i].date, text |-> Strip(l[i].text)]]

\* get_workout_hash(): an MD5 digest of the raw content, taken as collision-free
Hash(l) == <<"md5", l>>

\* The positions 0..n-1 of a set, in increasing order (an enumerate loop that
\* appends the qualifying positions)
RECURSIVE Ascending(_)
Ascending(S) ==
    IF S = {} THEN <<>>
    ELSE LET m == CHOOSE x \in S : \A y \in S : x <= y
         IN <<m>> \o Ascending(S \ {m})

\* The union of the mapped muscle groups of a workout's exercises
MuscleGroups(exercises) ==
    UNION {NormalizeGroups(exercises[j].exercise) : j \in 1..Len(exercises)}

HasChest(exercises) ==
    \E j \in 1..Len(exercises) : "chest" \in NormalizeGroups(exercises[j].exercise)

----------------------------------------------------------------------------
(* The language model's answer *)

\* message.content parsed by the two regular expressions: the indices listed on
\* the "leg day" and "upper body" lines (an absent line gives no indices), or
\* the call raising
AIAnswers ==
    {[raised |-> TRUE, leg |-> <<>>, upper |-> <<>>],
     [raised |-> FALSE, leg |-> <<>>, upper |-> <<>>],
     [raised |-> FALSE, leg |-> <<0>>, upper |-> <<0, 1, MaxLog + 1>>]}

\* [int(idx) for idx in ... if int(idx) < len(workouts)][:20]
ParseIndices(answer, n) ==
    Take(SelectSeq(answer, LAMBDA x : x < n), IndexCap)

----------------------------------------------------------------------------
(* build_search_index *)

\* The three rule-based categories as build_search_index computes them
BuildRuleBased(workouts, today) ==
    LET n == Len(workouts)
        det == DetectAll(workouts, today)
        exs(i) == ParseWorkoutText(workouts[i].text)
    IN [pr |-> Take(Ascending({i - 1 : i \in {k \in 1..n : det[k].has_pr}}), IndexCap),
        full |-> Take(Ascending({i - 1 : i \in {k \in 1..n :
                        exs(k) # <<>> /\ Cardinality(MuscleGroups(exs(k))) >= 3}}), IndexCap),
        chest |-> Take(Ascending({i - 1 : i \in {k \in 1..n : HasChest(exs(k))}}), IndexCap)]

\* A variant that fingerprints the parsed workouts instead of the file content
MutBuildMetadata(l, workouts) == [hash |-> Hash(workouts), count |-> Len(workouts)]

\* index['_metadata'] = {'workout_hash': get_workout_hash(), 'workout_count': ...}
BuildMetadata(l, workouts) == [hash |-> Hash(l), count |-> Len(workouts)]

BuildSearchIndex(l, today, ai) ==
    LET workouts == Entries(l)
        rule == BuildRuleBased(workouts, today)
        meta == BuildMetadata(l, workouts)
    IN IF workouts = <<>> THEN NoIndex
       ELSE [present |-> TRUE,
             pr |-> rule.pr, chest |-> rule.chest, full |-> rule.full,
             leg |-> IF ai.raised THEN <<>> ELSE ParseIndices(ai.leg, Len(workouts)),
             upper |-> IF ai.raised THEN <<>> ELSE ParseIndices(ai.upper, Len(workouts)),
             hash |-> meta.hash,
             count |-> meta.count]

----------------------------------------------------------------------------
(* update_index_for_workout *)

\* if workout_index in index[category]: index[category].remove(workout_index)
Removed(cat, workout_index) ==
    IF workout_index \in Range(cat) THEN RemoveFirst(cat, workout_index) ELSE cat

\* if workout_index not in index[category]: index[category].append(workout_index)
Added(cat, workout_index) ==
    IF workout_index \notin Range(cat) THEN Append(cat, workout_index) ELSE cat

\* A variant that appends without removing the old entry and without the
\* membership test
MutPlaced(cat, workout_index, qualifies) ==
    IF qualifies THEN Append(cat, workout_index) ELSE cat

\* One category list after the workout was taken out and, if it qualifies for
\* the category, put back at the end
Placed(cat, workout_index, qualifies) ==
    IF qualifies THEN Added(Removed(cat, workout_index), workout_index)
    ELSE Removed(cat, workout_index)

\* A variant that saves the index without refreshing workout_hash
MutKeepMetadata(idx, l) == idx

\* A variant that also invalidates the language-model categories
MutRefreshMetadata(idx, l) ==
    [idx EXCEPT !.hash = Hash(l), !.leg = <<>>, !.upper = <<>>]

\* index['_metadata']['workout_hash'] = get_workout_hash()
RefreshMetadata(idx, l) == [idx EXCEPT !.hash = Hash(l)]

\* A variant that initialises a missing index instead of returning
MutUpdateIndexForWorkout(idx, l, workout_index, workout_data, operation) ==
    RefreshMetadata([idx EXCEPT !.present = TRUE,
                                !.pr = Placed(@, workout_index, workout_data.has_pr)], l)

UpdateIndexForWorkout(idx, l, workout_index, workout_data, operation) ==
    IF ~idx.present THEN idx
    ELSE LET exercises == ParseWorkoutText(workout_data.text)
             changed ==
                 IF operation \in {"add", "update"}
                 THEN [idx EXCEPT
                         !.pr = Placed(@, workout_index, workout_data.has_pr),
                         !.chest = Placed(@, workout_index,
                                          exercises # <<>> /\ HasChest(exercises)),
                         !.full = Placed(@, workout_index,
                                         /\ exercises # <<>>
                                         /\ Cardinality(MuscleGroups(exercises)) >= 3)]
                 ELSE IF operation = "remove"
                 THEN [idx EXCEPT !.pr = Placed(@, workout_index, FALSE),
                                  !.chest = Placed(@, workout_index, FALSE),
                                  !.full = Placed(@, workout_index, FALSE)]
                 ELSE idx
         IN RefreshMetadata(changed, l)

----------------------------------------------------------------------------
(* Background rebuild threads *)

StartThread == [pc |-> "start", n |-> 0, idx |-> NoIndex]

\* A variant that starts no thread while another is in flight
MutSpawn(ths) == IF ths = {} THEN {StartThread} ELSE ths

\* rebuild_ai_index_async(): thread.start()
Spawn(ths) == ths \cup {StartThread}

CanSpawn == Cardinality(Spawn(threads)) <= MaxThreads

\* _rebuild, first part: reads the workout log, returns if it is empty, then
\* loads the index (an absent index is replaced by {})
RebuildLoad(t) ==
    /\ t \in threads
    /\ t.pc = "start"
    /\ threads' = IF Entries(log) = <<>>
                  THEN threads \ {t}
                  ELSE (threads \ {t}) \cup
                           {[pc |-> "call", n |-> Len(Entries(log)), idx |-> index]}
    /\ last' = [LastNone EXCEPT !.op = "rebuild_load"]
    /\ UNCHANGED <<now, log, index, flags, requests>>

\* A variant that saves a fresh index holding only the language-model categories
MutRebuildAnswer(t, l, ai) ==
    [t.idx EXCEPT !.pr = <<>>, !.chest = <<>>, !.full = <<>>,
                  !.leg = ParseIndices(ai.leg, t.n),
                  !.upper = ParseIndices(ai.upper, t.n),
                  !.hash = Hash(l),
                  !.count = t.n]

\* What _rebuild saves after the language-model call returned `ai`: the index
\* it loaded with the two AI categories replaced and the metadata refreshed
RebuildAnswer(t, l, ai) ==
    [t.idx EXCEPT !.leg = ParseIndices(ai.leg, t.n),
                  !.upper = ParseIndices(ai.upper, t.n),
                  !.hash = Hash(l),
                  !.count = t.n]

\* _rebuild, second part: the language-model call returns or raises.  If it
\* raises, the outer except ends the thread and nothing is written;
\* index['_metadata'] of {} raises KeyError, which ends the thread the same
\* way.  Otherwise the metadata is refreshed and the index saved.
RebuildFinish(t, ai) ==
    /\ t \in threads
    /\ t.pc = "call"
    /\ threads' = threads \ {t}
    /\ index' = IF ai.raised \/ ~t.idx.present THEN index ELSE RebuildAnswer(t, log, ai)
    /\ last' = [LastNone EXCEPT !.op = "rebuild",
                                !.branch = IF ai.raised THEN "raised"
                                           ELSE IF ~t.idx.present THEN "keyerror"
                                           ELSE "saved"]
    /\ UNCHANGED <<now, log, flags, requests>>

\* Some thread takes its next step
LoadStep == \E t \in threads : RebuildLoad(t)

FinishStep == \E t \in threads : \E ai \in AIAnswers : RebuildFinish(t, ai)

----------------------------------------------------------------------------
(* ensure_search_index *)

NeedsUpdate(idx, l) == ~idx.present \/ idx.hash # Hash(l)

EnsureBuild(ai) ==
    /\ ~index.present
    /\ LET built == BuildSearchIndex(log, now, ai) IN
       /\ index' = IF built.present THEN built ELSE index
       /\ last' = [LastNone EXCEPT !.op = "ensure",
                                   !.branch = IF ai.raised THEN "build_raised" ELSE "build",
                                   !.ret = built]
    /\ UNCHANGED <<now, log, threads, flags>>

EnsureStale ==
    /\ index.present
    /\ index.hash # Hash(log)
    /\ CanSpawn
    /\ threads' = Spawn(threads)
    /\ last' = [LastNone EXCEPT !.op = "ensure", !.branch = "stale", !.ret = index]
    /\ UNCHANGED <<now, log, index, flags>>

\* A variant that starts a background rebuild although the index is current
MutEnsureCurrent ==
    /\ index.present
    /\ index.hash = Hash(log)
    /\ CanSpawn
    /\ threads' = Spawn(threads)
    /\ last' = [LastNone EXCEPT !.op = "ensure", !.branch = "current", !.ret = index]
    /\ UNCHANGED <<now, log, index, flags>>

EnsureCurrent ==
    /\ index.present
    /\ index.hash = Hash(log)
    /\ last' = [LastNone EXCEPT !.op = "ensure", !.branch = "current", !.ret = index]
    /\ UNCHANGED <<now, log, index, threads, flags>>

----------------------------------------------------------------------------
(* log_workout, update_workout, delete_workout (file-backed branch) *)

\* The texts a client submits
AppTexts ==
    {Text(<<Weighted("bench press", 100, 5)>>),
     Text(<<Weighted("bench press", 105, 5)>>),
     Text(<<Weighted("deadlift", 100, 5)>>)}

\* A text with trailing whitespace, as update_workout may receive it
Padded(text) == [text EXCEPT !.pad = TRUE]

UpdateTexts == AppTexts \cup {Padded(Text(<<Weighted("bench press", 100, 5)>>))}

\* The simplified PR check of log_workout / update_workout / delete_workout:
\* the history is folded over `others` whatever their dates, and only has_pr
\* is computed
SimplePR(text, others) ==
    LET h == FoldExercises(EmptyHistory,
                 Flatten([i \in 1..Len(others) |-> ParseWorkoutText(others[i].text)]))
        exs == ParseWorkoutText(text)
    IN \E j \in 1..Len(exs) : EvalExercise(exs[j], h).pr

LogWorkout(text) ==
    /\ Len(log) < MaxLog
    /\ CanSpawn
    /\ LET new_log == <<[date |-> now, text |-> text]>> \o log
           workouts == Entries(new_log)
           workout_data ==
               [text |-> text,
                has_pr |-> Len(workouts) > 1 /\ SimplePR(text, Tail(workouts))]
       IN /\ log' = new_log
          /\ index' = UpdateIndexForWorkout(index, new_log, 0, workout_data, "add")
          /\ last' = [LastNone EXCEPT !.op = "log_workout"]
    /\ threads' = Spawn(threads)
    /\ UNCHANGED <<now, flags>>

\* The first position (1-based) of an entry with this date and stripped text, 0 if none
FirstMatch(workouts, date, text) ==
    LET S == {k \in 1..Len(workouts) :
                workouts[k].date = date /\ workouts[k].text = text}
    IN IF S = {} THEN 0 ELSE CHOOSE k \in S : \A m \in S : k <= m

UpdateWorkout(i, new_text) ==
    /\ i \in 1..Len(log)
    /\ CanSpawn
    /\ LET old == Entries(log)[i]
           j == FirstMatch(Entries(log), old.date, old.text)
           new_log == [log EXCEPT ![j].text =
                          [lines |-> new_text.lines, pad |-> new_text.pad \/ log[j].text.pad]]
           workouts == Entries(new_log)
           k == FirstMatch(workouts, old.date, new_text)
           others == SelectSeq(workouts,
                         LAMBDA w : ~(w.date = old.date /\ w.text = new_text))
           workout_data ==
               [text |-> new_text,
                has_pr |-> Len(workouts) > 1 /\ SimplePR(new_text, others)]
       IN /\ log' = new_log
          /\ IF k # 0
             THEN /\ index' = UpdateIndexForWorkout(index, new_log, k - 1,
                                                    workout_data, "update")
                  /\ threads' = Spawn(threads)
                  /\ last' = [LastNone EXCEPT !.op = "update_workout", !.branch = "found"]
             ELSE /\ UNCHANGED <<index, threads>>
                  /\ last' = [LastNone EXCEPT !.op = "update_workout",
                                              !.branch = "not_found"]
    /\ UNCHANGED <<now, flags>>

\* The rule-based categories as delete_workout recomputes them: has_pr of the
\* workout at position i is checked against workouts_after[:i]
DeleteRuleBased(workouts) ==
    LET n == Len(workouts)
        exs(i) == ParseWorkoutText(workouts[i].text)
    IN [pr |-> Take(Ascending({i - 1 : i \in {k \in 1..n :
                        exs(k) # <<>>
                        /\ SimplePR(workouts[k].text, SubSeq(workouts, 1, k - 1))}}),
                    IndexCap),
        chest |-> Take(Ascending({i - 1 : i \in {k \in 1..n :
                        exs(k) # <<>> /\ HasChest(exs(k))}}), IndexCap),
        full |-> Take(Ascending({i - 1 : i \in {k \in 1..n :
                        exs(k) # <<>> /\ Cardinality(MuscleGroups(exs(k))) >= 3}}),
                      IndexCap)]

DeleteIndex(idx, new_log) ==
    LET workouts_after == Entries(new_log)
        rule == DeleteRuleBased(workouts_after)
    IN [idx EXCEPT !.pr = rule.pr, !.chest = rule.chest, !.full = rule.full,
                   !.hash = Hash(new_log), !.count = Len(workouts_after)]

\* Every entry whose date line is the given date, or the date without its time,
\* and whose stripped text is the given text is dropped
DeleteWorkout(i) ==
    /\ i \in 1..Len(log)
    /\ CanSpawn
    /\ LET target == Entries(log)[i]
           date_without_time == [target.date EXCEPT !.time = 0]
           new_log == SelectSeq(log,
                          LAMBDA e : ~(/\ e.date \in {target.date, date_without_time}
                                       /\ Strip(e.text) = target.text))
       IN /\ log' = new_log
          /\ IF index.present
             THEN /\ index' = DeleteIndex(index, new_log)
                  /\ threads' = Spawn(threads)
             ELSE UNCHANGED <<index, threads>>
    /\ last' = [LastNone EXCEPT !.op = "delete_workout"]
    /\ UNCHANGED <<now, flags>>

\* Time passes
Tick ==
    /\ now.day < MaxDay
    /\ now' = [now EXCEPT !.day = now.day + 1]
    /\ UNCHANGED <<log, index, threads, last, flags, requests>>

\* workouts.md at start-up: missing or empty, or one entry written earlier
\* under a date-only heading
InitLogs == {<<>>} \cup {<<[date |-> DateOnly(1), text |-> t]>> : t \in AppTexts}

Init ==
    /\ now = [day |-> 1, time |-> 1]
    /\ log \in InitLogs
    /\ index = NoIndex
    /\ threads = {}
    /\ last = LastNone
    /\ flags = <<>>
    /\ requests = 0

\* A request served, counted against the bound of the model
Request(A) == requests < MaxRequests /\ A /\ requests' = requests + 1

Next ==
    \/ Tick
    \/ \E text \in AppTexts : Request(LogWorkout(text))
    \/ \E i \in 1..MaxLog : \E text \in UpdateTexts : Request(UpdateWorkout(i, text))
    \/ \E i \in 1..MaxLog : Request(DeleteWorkout(i))
    \/ \E ai \in AIAnswers : Request(EnsureBuild(ai))
    \/ Request(EnsureStale)
    \/ Request(EnsureCurrent)
    \/ LoadStep
    \/ FinishStep

Spec == Init /\ [][Next]_vars

----------------------------------------------------------------------------
(* Claims about the index under log / update / delete requests (Spec) *)

RuleBased(idx) == [pr |-> idx.pr, chest |-> idx.chest, full |-> idx.full]

Members(rule) ==
    [pr |-> Range(rule.pr), chest |-> Range(rule.chest), full |-> Range(rule.full)]

IsCurrent == index.present /\ index.hash = Hash(log)

\* C1: whenever the stored workout_hash equals the hash of the current log, the
\* three rule-based categories of the stored index have the members
\* build_search_index would compute from the current log.
C1_RuleBasedInSync ==
    IsCurrent =>
        Members(RuleBased(index)) = Members(BuildRuleBased(Entries(log), now))

\* C4: if the language-model call raises during the full build or during the
\* background rebuild of a stored index, the index is written with 'leg day'
\* and 'upper body' empty, the rule-based categories intact and workout_hash
\* equal to the hash of the current log.
C4_RaiseStillWrites ==
    [][ /\ (\E ai \in AIAnswers : ai.raised /\ EnsureBuild(ai) /\ log # <<>>) =>
              /\ index'.present
              /\ index'.leg = <<>> /\ index'.upper = <<>>
              /\ RuleBased(index') = BuildRuleBased(Entries(log), now)
              /\ index'.hash = Hash(log')
        /\ (\E t \in threads : \E ai \in AIAnswers :
                ai.raised /\ t.idx.present /\ index.present /\ RebuildFinish(t, ai)) =>
              /\ index'.present
              /\ index'.leg = <<>> /\ index'.upper = <<>>
              /\ RuleBased(index') = RuleBased(index)
              /\ index'.hash = Hash(log')
      ]_vars

\* C6: with no stored index and a non-empty log, ensure_search_index builds the
\* index synchronously, saves it and returns it; the stored workout_hash then
\* equals the hash of the current log, so the next ensure_search_index call
\* needs no update.
C6_AbsentToCurrent ==
    (last.op = "ensure" /\ last.branch \in {"build", "build_raised"} /\ log # <<>>) =>
        /\ index.present
        /\ last.ret = index
        /\ RuleBased(index) = BuildRuleBased(Entries(log), now)
        /\ index.count = Len(log)
        /\ index.hash = Hash(log)
        /\ ~NeedsUpdate(index, log)

\* C6 witness: a full build has just run on a log of two workouts, one of them
\* carrying trailing whitespace in the file.
C6_Witness ==
    /\ last.op = "ensure" /\ last.branch = "build"
    /\ Len(log) = 2
    /\ \E i \in 1..Len(log) : log[i].text.pad
    /\ index.present /\ index.chest # <<>>

----------------------------------------------------------------------------
(* update_index_for_workout called directly on a built index (SpecIndex) *)

\* The workout facts passed to update_index_for_workout
IndexData ==
    {[text |-> Text(<<Weighted("bench press", 100, 5)>>), has_pr |-> TRUE],
     [text |-> Text(<<Weighted("deadlift", 100, 5)>>), has_pr |-> TRUE],
     [text |-> Text(<<Weighted("bench press", 105, 5)>>), has_pr |-> FALSE]}

IndexOps == {"add", "update", "remove"}

UpdateIndexCall(workout_index, workout_data, operation) ==
    /\ index' = UpdateIndexForWorkout(index, log, workout_index, workout_data, operation)
    /\ last' = [LastNone EXCEPT
                  !.op = "update_index",
                  !.branch = IF /\ last.op = "update_index"
                                /\ last.pos = workout_index
                                /\ last.data = workout_data
                                /\ last.operation = operation
                             THEN "repeat" ELSE "first",
                  !.pos = workout_index,
                  !.data = workout_data,
                  !.operation = operation]
    /\ UNCHANGED <<now, log, threads, flags>>

AnyUpdateIndexCall ==
    \E workout_index \in 0..MaxLog : \E workout_data \in IndexData :
        \E operation \in IndexOps :
            UpdateIndexCall(workout_index, workout_data, operation)

NextIndex ==
    \/ \E ai \in AIAnswers : Request(EnsureBuild(ai))
    \/ Request(AnyUpdateIndexCall)

SpecIndex == Init /\ [][NextIndex]_vars

Occurrences(cat, x) == Cardinality({i \in 1..Len(cat) : cat[i] = x})

\* C2: on an existing index, calling update_index_for_workout(pos, facts, 'add')
\* again right after the same call leaves 'PR personal record', 'chest workout'
\* and 'full body' as the first call left them, and pos appears at most once in
\* each of the three lists.
C2_AddIdempotent ==
    (last.op = "update_index" /\ last.operation = "add" /\ index.present) =>
        LET again == UpdateIndexForWorkout(index, log, last.pos, last.data, "add")
        IN /\ RuleBased(again) = RuleBased(index)
           /\ Occurrences(index.pr, last.pos) <= 1
           /\ Occurrences(index.chest, last.pos) <= 1
           /\ Occurrences(index.full, last.pos) <= 1
           /\ Occurrences(again.pr, last.pos) <= 1
           /\ Occurrences(again.chest, last.pos) <= 1
           /\ Occurrences(again.full, last.pos) <= 1

\* C2 witness: the same 'add' has just been made twice in a row and the
\* position is a member of 'PR personal record' and of 'chest workout'.
C2_Witness ==
    /\ last.op = "update_index" /\ last.operation = "add" /\ last.branch = "repeat"
    /\ index.present
    /\ last.pos \in Range(index.pr) \cap Range(index.chest)

\* C3: update_index_for_workout, whatever the operation, the position and the
\* workout facts, leaves 'leg day' and 'upper body' of the stored index
\* unchanged.
C3_AICategoriesUntouched ==
    [][AnyUpdateIndexCall => (index'.leg = index.leg /\ index'.upper = index.upper)]_vars

\* C3 witness: an index whose 'leg day' and 'upper body' lists are not empty
\* after a 'remove' that changed 'chest workout'.
C3_Witness ==
    /\ last.op = "update_index" /\ last.operation = "remove"
    /\ index.present
    /\ index.leg # <<>> /\ index.upper # <<>>
    /\ index.chest = <<>>

----------------------------------------------------------------------------
(* A stale index and the rebuilds ensure_search_index starts (SpecStale, SpecFail) *)

\* Logs kept newest first, every entry dated by day only
StaleLogs ==
    {l \in UNION {[1..n -> {[date |-> DateOnly(d), text |-> t] :
                                d \in 1..MaxDay, t \in AppTexts}] : n \in 1..MaxLog} :
        \A i \in 1..(Len(l) - 1) : l[i].date.day >= l[i + 1].date.day}

\* The index was built from the log; update_workout then rewrote the newest
\* entry with trailing whitespace, which changes the file but not the index
InitStale ==
    /\ now = [day |-> MaxDay, time |-> 1]
    /\ \E l \in StaleLogs : \E ai \in AIAnswers :
          /\ index = BuildSearchIndex(l, now, ai)
          /\ log = [l EXCEPT ![1].text = Padded(@)]
    /\ threads = {}
    /\ last = LastNone
    /\ flags = <<>>
    /\ requests = 0

StaleEnsure == EnsureStale /\ UNCHANGED requests

CurrentEnsure == EnsureCurrent /\ UNCHANGED requests

\* The language-model call fails on every attempt
FailStep == \E t \in threads : \E ai \in AIAnswers : ai.raised /\ RebuildFinish(t, ai)

NextStale ==
    \/ StaleEnsure
    \/ CurrentEnsure
    \/ LoadStep
    \/ FinishStep

SpecStale == InitStale /\ [][NextStale]_vars

NextFail ==
    \/ StaleEnsure
    \/ LoadStep
    \/ FailStep

\* ensure_search_index keeps being called and every started thread runs on
SpecFail ==
    /\ InitStale
    /\ [][NextFail]_vars
    /\ WF_vars(StaleEnsure)
    /\ WF_vars(LoadStep)
    /\ WF_vars(FailStep)

\* C5: with an unchanged, non-empty log and a language-model call that fails on
\* every attempt, a stale index eventually becomes current and stays so: the
\* stored workout_hash equals the hash of the log and ensure_search_index
\* starts no further rebuild.
C5_EventuallyCurrent == <>[]IsCurrent

\* C7: on a stale index ensure_search_index returns the stored index as it was,
\* without rebuilding it, and starts a background rebuild; the rebuild, when
\* it saves, changes only 'leg day', 'upper body' and the metadata and leaves
\* the three rule-based categories as they were.
C7_StaleRebuildsAIOnly ==
    [][ /\ StaleEnsure =>
              /\ last'.ret = index
              /\ index' = index
              /\ StartThread \in threads'
        /\ FinishStep =>
              /\ index'.present
              /\ RuleBased(index') = RuleBased(index)
      ]_vars

\* C7 witness: a background rebuild has saved; the index is current, and
\* 'PR personal record', 'chest workout' and the language-model categories are
\* not empty.
C7_Witness ==
    /\ last.op = "rebuild" /\ last.branch = "saved"
    /\ IsCurrent
    /\ index.pr # <<>> /\ index.chest # <<>>
    /\ index.leg # <<>> /\ index.upper # <<>>

----------------------------------------------------------------------------
(* A log longer than the category cap (SpecCap) *)

\* IndexCap chest workouts on consecutive days and one older workout
CapLog ==
    [i \in 1..(IndexCap + 1) |->
        [date |-> DateOnly(IndexCap + 2 - i),
         text |-> IF i <= IndexCap THEN Text(<<Weighted("bench press", 100, 5)>>)
                  ELSE Text(<<Weighted("deadlift", 100, 5)>>)]]

\* The entries a client edits
CapEdits == {1, IndexCap, IndexCap + 1}

InitCap ==
    /\ now = [day |-> IndexCap + 1, time |-> 1]
    /\ log = CapLog
    /\ index = NoIndex
    /\ threads = {}
    /\ last = LastNone
    /\ flags = <<>>
    /\ requests = 0

NextCap ==
    \/ \E ai \in AIAnswers : Request(EnsureBuild(ai))
    \/ \E i \in CapEdits : \E text \in AppTexts : Request(UpdateWorkout(i, text))
    \/ LoadStep
    \/ FinishStep

SpecCap == InitCap /\ [][NextCap]_vars

\* C8: in every stored index state every category list ('PR personal record',
\* 'chest workout', 'full body', 'leg day', 'upper body') holds at most 20
\* positions.
C8_CategoriesCapped ==
    index.present =>
        /\ Len(index.pr) <= IndexCap
        /\ Len(index.chest) <= IndexCap
        /\ Len(index.full) <= IndexCap
        /\ Len(index.leg) <= IndexCap
        /\ Len(index.upper) <= IndexCap

----------------------------------------------------------------------------
(* get_workouts: evaluates every workout of the list against its history *)

GetWorkouts ==
    /\ flags' = DetectAll(log, now)
    /\ last' = [LastNone EXCEPT !.op = "get_workouts"]
    /\ UNCHANGED <<now, log, index, threads>>

InitPR ==
    /\ now = [day |-> MaxDay + 1, time |-> 1]
    /\ log \in PRLogs
    /\ index = NoIndex
    /\ threads = {}
    /\ last = LastNone
    /\ flags = <<>>
    /\ requests = 0

NextPR == GetWorkouts /\ UNCHANGED requests

SpecPR == InitPR /\ [][NextPR]_vars

----------------------------------------------------------------------------
(* Claims about PR / strength-increase detection (SpecPR) *)

Evaluated == last.op = "get_workouts"

\* C9: for any single exercise evaluated against its history-before record the
\* PR condition and the strength-increase condition are never both true, and a
\* bodyweight exercise can only yield a PR.
C9_MutuallyExclusive ==
    Evaluated =>
        \A i \in 1..Len(flags) : \A j \in 1..Len(flags[i].evals) :
            LET e == flags[i].evals[j]
                ex == flags[i].exercises[j]
            IN /\ ~(e.pr /\ e.si)
               /\ (ex.is_bodyweight \/ ex.max_weight = 0) => ~e.si

\* C9 witness: an evaluated list in which one weighted exercise is a strength
\* increase and another weighted exercise is a PR.
C9_Witness ==
    /\ Evaluated
    /\ \E i \in 1..Len(flags) : \E j \in 1..Len(flags[i].evals) :
           flags[i].evals[j].si /\ ~flags[i].exercises[j].is_bodyweight
    /\ \E i \in 1..Len(flags) : \E j \in 1..Len(flags[i].evals) :
           flags[i].evals[j].pr /\ ~flags[i].exercises[j].is_bodyweight

\* The exercises with key k of the workouts dated strictly before workout i
EarlierExercises(i, k) ==
    {ex \in UNION {Range(ParseWorkoutText(log[p].text)) :
                     p \in {q \in 1..Len(log) :
                              /\ ParseDate(log[q].date, now) # NoDate
                              /\ ParseDate(log[q].date, now) < ParseDate(log[i].date, now)}} :
        LowerStrip(ex.exercise) = k}

BestWeightBefore(i, k) ==
    CHOOSE w \in {ex.max_weight : ex \in EarlierExercises(i, k)} :
        \A ex \in EarlierExercises(i, k) : ex.max_weight <= w

IsWeighted(ex) == ~ex.is_bodyweight /\ ex.max_weight # 0

\* C10: a weighted exercise with a history-before record is a PR exactly when
\* its max weight exceeds the best weight of strictly earlier workouts, and a
\* strength increase exactly when the weight equals it and the first-set reps
\* exceed best_weight_reps; the workout flags are the disjunction over its
\* exercises; 100*5 then 105*5 gives has_pr, 100*5 then 100*7 gives
\* has_strength_increase and not has_pr.
C10_WeightedFlags ==
    Evaluated =>
        /\ \A i \in 1..Len(flags) :
              /\ flags[i].dated =>
                    \A j \in 1..Len(flags[i].exercises) :
                        LET ex == flags[i].exercises[j]
                            k == LowerStrip(ex.exercise)
                        IN (IsWeighted(ex) /\ EarlierExercises(i, k) # {}) =>
                              /\ k \in DOMAIN flags[i].history
                              /\ flags[i].history[k].best_weight = BestWeightBefore(i, k)
                              /\ flags[i].evals[j].pr <=> ex.max_weight > BestWeightBefore(i, k)
                              /\ flags[i].evals[j].si <=>
                                    /\ ex.max_weight = BestWeightBefore(i, k)
                                    /\ ex.first_reps > flags[i].history[k].best_weight_reps
              /\ flags[i].has_pr <=> \E j \in 1..Len(flags[i].evals) : flags[i].evals[j].pr
              /\ flags[i].has_strength_increase <=>
                    \E j \in 1..Len(flags[i].evals) : flags[i].evals[j].si
        /\ log = <<[date |-> DateOnly(2), text |-> Text(<<Weighted("bench press", 105, 5)>>)],
                   [date |-> DateOnly(1), text |-> Text(<<Weighted("bench press", 100, 5)>>)]>>
              => flags[1].has_pr
        /\ log = <<[date |-> DateOnly(1), text |-> Text(<<Weighted("bench press", 100, 5)>>)],
                   [date |-> DateOnly(2), text |-> Text(<<Weighted("bench press", 100, 7)>>)]>>
              => flags[2].has_strength_increase /\ ~flags[2].has_pr

\* C10 witness: the list 100*5 (day 1), 100*7 (day 2), 105*5 (day 2) has been
\* evaluated, so a weighted exercise met a history record both ways.
C10_Witness ==
    /\ Evaluated
    /\ log = <<[date |-> DateOnly(1), text |-> Text(<<Weighted("bench press", 100, 5)>>)],
               [date |-> DateOnly(2), text |-> Text(<<Weighted("bench press", 100, 7)>>)],
               [date |-> DateOnly(2), text |-> Text(<<Weighted("bench press", 105, 5)>>)]>>
    /\ flags[2].has_strength_increase /\ ~flags[2].has_pr
    /\ flags[3].has_pr

\* The exercise keys of the workouts dated strictly before workout i
EarlierKeys(i) ==
    {k \in {LowerStrip(ex.exercise) :
              ex \in UNION {Range(ParseWorkoutText(log[p].text)) : p \in 1..Len(log)}} :
        EarlierExercises(i, k) # {}}

BestRepsBefore(i, k) ==
    CHOOSE r \in {ex.first_reps : ex \in EarlierExercises(i, k)} :
        \A ex \in EarlierExercises(i, k) : ex.first_reps <= r

\* C11: the history of a reference workout holds exactly the exercises of the
\* workouts whose parsed date is strictly earlier than the reference's, with
\* the best values taken over those workouts only; workouts at the reference's
\* date and the reference itself contribute nothing, and a reference with no
\* earlier workout has an empty history and neither flag.
C11_HistoryStrictlyEarlier ==
    Evaluated =>
        \A i \in 1..Len(flags) :
            flags[i].dated =>
                /\ DOMAIN flags[i].history = EarlierKeys(i)
                /\ \A k \in EarlierKeys(i) :
                      /\ flags[i].history[k].best_weight = BestWeightBefore(i, k)
                      /\ flags[i].history[k].best_reps = BestRepsBefore(i, k)
                /\ EarlierKeys(i) = {} =>
                      /\ flags[i].history = EmptyHistory
                      /\ ~flags[i].has_pr
                      /\ ~flags[i].has_strength_increase

\* C11 witness: the reference at position 1 shares its date with a lighter
\* workout of the same exercise and has nothing earlier, so its history is
\* empty, while a later workout does have a history.
C11_Witness ==
    /\ Evaluated
    /\ Len(log) = 3
    /\ log[1] = [date |-> DateOnly(1), text |-> Text(<<Weighted("bench press", 105, 5)>>)]
    /\ log[2] = [date |-> DateOnly(1), text |-> Text(<<Weighted("bench press", 100, 5)>>)]
    /\ flags[1].dated /\ flags[1].history = EmptyHistory /\ ~flags[1].has_pr
    /\ flags[3].history # EmptyHistory

----------------------------------------------------------------------------
(* get_workouts on workouts with pairwise distinct, valid dates (SpecFold) *)

\* "<name> - <weight> * <r1>, <r2>": two sets at the header weight
TwoSets(name, weight, r1, r2) ==
    [kind |-> "wr", exercise |-> name, weight |-> weight,
     parts |-> <<[w |-> Bare, r |-> r1], [w |-> Bare, r |-> r2]>>]

FoldTexts ==
    {Text(<<Weighted("bench press", 100, 5)>>),
     Text(<<Weighted("Bench Press", 105, 3)>>),
     Text(<<TwoSets("bench press", 100, 5, 8)>>),
     Text(<<MixedLine>>)}

\* Date strings with and without a time of day
FoldDates == {[day |-> d, time |-> t] : d \in 1..MaxDay, t \in {0, 1}}

FoldLogs ==
    {l \in UNION {[1..n -> {[date |-> d, text |-> t] : d \in FoldDates, t \in FoldTexts}] :
                    n \in 2..MaxPRLog} :
        \A i, j \in 1..Len(l) : l[i].date = l[j].date => i = j}

InitFold ==
    /\ now = [day |-> MaxDay + 1, time |-> 1]
    /\ log \in FoldLogs
    /\ index = NoIndex
    /\ threads = {}
    /\ last = LastNone
    /\ flags = <<>>
    /\ requests = 0

NextFold == GetWorkouts /\ UNCHANGED requests

SpecFold == InitFold /\ [][NextFold]_vars

\* Workout i is dated after every other workout of the list
DatedAfterAll(i) ==
    \A q \in 1..Len(log) :
        q # i => ParseDate(log[q].date, now) < ParseDate(log[i].date, now)

\* All sets of the exercises with key k in the workouts before workout i
SetsBefore(i, k) == UNION {Range(ex.sets) : ex \in EarlierExercises(i, k)}

MaxOf(S) == CHOOSE m \in S : \A x \in S : x <= m

\* C12: for a reference dated after all other workouts, whose dates are valid
\* and pairwise distinct, the history holds for each exercise key the maximum
\* weight of any set and the maximum reps of any set of those workouts,
\* whatever the order of the workouts in the list.
C12_HistoryIsPairwiseMax ==
    Evaluated =>
        \A i \in 1..Len(flags) :
            DatedAfterAll(i) =>
                /\ DOMAIN flags[i].history = EarlierKeys(i)
                /\ \A k \in EarlierKeys(i) :
                      /\ flags[i].history[k].best_weight =
                             MaxOf({st.weight : st \in SetsBefore(i, k)})
                      /\ flags[i].history[k].best_reps =
                             MaxOf({st.reps : st \in SetsBefore(i, k)})

----------------------------------------------------------------------------
(* get_workouts on workouts whose date may be unusable (SpecDates) *)

\* A date three days after today: strptime accepts it, the plausibility
\* filter discards it
FutureDate == [day |-> 4, time |-> 0]

DateTexts ==
    {Text(<<Weighted("bench press", 100, 5)>>),
     Text(<<Weighted("bench press", 105, 5)>>),
     Text(<<Bodyweight("pull-up", 8)>>)}

DateDates == {BadDate, FutureDate, DateOnly(1), [day |-> 1, time |-> 1]}

DateLogs ==
    UNION {[1..n -> {[date |-> d, text |-> t] : d \in DateDates, t \in DateTexts}] :
             n \in 1..MaxPRLog}

InitDates ==
    /\ now = [day |-> 1, time |-> 1]
    /\ log \in DateLogs
    /\ index = NoIndex
    /\ threads = {}
    /\ last = LastNone
    /\ flags = <<>>
    /\ requests = 0

NextDates == GetWorkouts /\ UNCHANGED requests

SpecDates == InitDates /\ [][NextDates]_vars

\* C13: a workout whose date string matches no accepted format, or is
\* discarded as implausible, is evaluated with an empty history and gets
\* neither has_pr nor has_strength_increase; every workout of the list is
\* still evaluated, the dated ones against the dated workouts before them.
C13_UnusableDateNoFlags ==
    Evaluated =>
        /\ Len(flags) = Len(log)
        /\ \A i \in 1..Len(flags) :
              IF log[i].date \in {BadDate, FutureDate}
              THEN /\ flags[i].history = EmptyHistory
                   /\ ~flags[i].has_pr
                   /\ ~flags[i].has_strength_increase
              ELSE /\ DOMAIN flags[i].history = EarlierKeys(i)
                   /\ \A j \in 1..Len(flags[i].exercises) :
                         LET ex == flags[i].exercises[j]
                             k == LowerStrip(ex.exercise)
                         IN (IsWeighted(ex) /\ k \in EarlierKeys(i)) =>
                               (flags[i].evals[j].pr <=>
                                    ex.max_weight > BestWeightBefore(i, k))

\* C13 witness: a workout dated three days ahead, heavier than everything
\* else, is not flagged, while the dated workout after it in the list is a PR.
C13_Witness ==
    /\ Evaluated
    /\ Len(log) = 3
    /\ log[1] = [date |-> FutureDate, text |-> Text(<<Weighted("bench press", 105, 5)>>)]
    /\ log[2] = [date |-> [day |-> 1, time |-> 1],
                 text |-> Text(<<Weighted("bench press", 105, 5)>>)]
    /\ log[3] = [date |-> DateOnly(1), text |-> Text(<<Weighted("bench press", 100, 5)>>)]
    /\ ~flags[1].has_pr /\ flags[1].history = EmptyHistory
    /\ flags[2].has_pr

-----------------------------------------------------------------------------
(* Progressive overload: the weighted branch of progressive_overload and  *)
(* of progressive_overload_suggestions, as functions of the last weight,  *)
(* the last reps and the days since the exercise was last performed.      *)
(* Weights are whole numbers; the intermediate values of the code are     *)
(* floats, kept here exactly in fortieths (last_weight * 0.025 is         *)
(* last_weight / 40).                                                      *)

MaxWeight == 105
MaxReps == 13
MaxDaysAgo == 31

\* round(n / d) of Python 3: to the nearest whole number, a tie to the even one
RoundHalfEven(n, d) ==
    LET q == n \div d
        r == n % d
    IN  IF 2 * r < d THEN q
        ELSE IF 2 * r > d THEN q + 1
        ELSE IF q % 2 = 0 THEN q ELSE q + 1

\* int(round(x / 2.5) * 2.5) below 50 and int(round(x / 5) * 5) otherwise,
\* for x = fortieths / 40
RoundToGrid(fortieths, last_weight) ==
    IF last_weight < 50
    THEN (RoundHalfEven(fortieths, 100) * 5) \div 2
    ELSE RoundHalfEven(fortieths, 200) * 5

\* the deload of both functions: 5% less, rounded to the grid, at least 1
Deload(last_weight, last_reps) ==
    [weight |-> Max(1, RoundToGrid(40 * last_weight - 2 * last_weight, last_weight)),
     reps   |-> IF last_reps > 1 THEN Max(1, last_reps - 1) ELSE last_reps]

\* progressive_overload, the branch of an exercise with a last weight
ProgressiveOverload(last_weight, last_reps, days_ago) ==
    IF days_ago <= 14
    THEN IF last_reps < 10 /\ last_reps + 1 <= 12
         THEN [weight |-> last_weight, reps |-> Min(last_reps + 1, 12)]
         ELSE IF last_reps >= 10 /\ last_reps < 12
         THEN [weight |-> RoundToGrid(40 * last_weight + last_weight, last_weight),
               reps   |-> Min(last_reps, 12)]
         ELSE [weight |-> RoundToGrid(40 * last_weight + last_weight, last_weight),
               reps   |-> 12]
    ELSE IF days_ago <= 30
    THEN [weight |-> last_weight, reps |-> last_reps]
    ELSE Deload(last_weight, last_reps)

\* A variant of the suggestions that progresses as progressive_overload does
MutOverloadSuggestion(last_weight, last_reps, days_ago) ==
    ProgressiveOverload(last_weight, last_reps, days_ago)

\* progressive_overload_suggestions, the weighted branch
OverloadSuggestion(last_weight, last_reps, days_ago) ==
    IF days_ago <= 14
    THEN IF last_reps < 6
         THEN [weight |-> last_weight, reps |-> Min(last_reps + 1, 6)]
         ELSE LET weight_increase == Max(last_weight, 100)
                  suggested_weight ==
                      RoundToGrid(40 * last_weight + weight_increase, last_weight)
              IN  [weight |-> IF suggested_weight <= last_weight
                              THEN IF last_weight < 50
                                   THEN (2 * last_weight + 5) \div 2
                                   ELSE last_weight + 5
                              ELSE suggested_weight,
                   reps   |-> 5]
    ELSE IF days_ago <= 30
    THEN [weight |-> last_weight, reps |-> last_reps]
    ELSE Deload(last_weight, last_reps)

OverloadInputs ==
    [last_weight : 1..MaxWeight, last_reps : 1..MaxReps, days_ago : 0..MaxDaysAgo]

InitOverload ==
    /\ now = [day |-> 0, time |-> 0]
    /\ log = <<>>
    /\ index = NoIndex
    /\ threads = {}
    /\ last \in {[LastNone EXCEPT !.data = in] : in \in OverloadInputs}
    /\ flags = <<>>
    /\ requests = 0

\* one call of each function on the same last performance
Suggest ==
    /\ last.op = "none"
    /\ last' = [last EXCEPT
                  !.op = "progressive_overload",
                  !.ret = [overload   |-> ProgressiveOverload(last.data.last_weight,
                                              last.data.last_reps, last.data.days_ago),
                           suggestion |-> OverloadSuggestion(last.data.last_weight,
                                              last.data.last_reps, last.data.days_ago)]]
    /\ UNCHANGED <<now, log, index, threads, flags, requests>>

NextOverload == Suggest

SpecOverload == InitOverload /\ [][NextOverload]_vars

Suggested == last.op = "progressive_overload"

\* C14: with last_reps in 1..12 and at most 14 days since the exercise, the
\* suggested reps never exceed 12 and the suggested weight is never less than
\* last_weight, in progressive_overload and in progressive_overload_suggestions.
C14_OverloadBounds ==
    (Suggested /\ last.data.last_reps <= 12 /\ last.data.days_ago <= 14) =>
        /\ last.ret.overload.reps <= 12
        /\ last.ret.suggestion.reps <= 12
        /\ last.ret.overload.weight >= last.data.last_weight
        /\ last.ret.suggestion.weight >= last.data.last_weight

\* C15: with last_reps of 10 or more and at most 14 days since the exercise,
\* the suggested weight is strictly greater than last_weight in both
\* functions (a minimum increment is forced when rounding gives no more).
C15_WeightStrictlyGreater ==
    (Suggested /\ last.data.last_reps >= 10 /\ last.data.days_ago <= 14) =>
        /\ last.ret.overload.weight > last.data.last_weight
        /\ last.ret.suggestion.weight > last.data.last_weight

\* C16: with last_reps below 10 and at most 14 days since the exercise, both
\* functions keep the weight and suggest last_reps + 1.
C16_RepProgression ==
    (Suggested /\ last.data.last_reps < 10 /\ last.data.days_ago <= 14) =>
        /\ last.ret.overload =
              [weight |-> last.data.last_weight, reps |-> last.data.last_reps + 1]
        /\ last.ret.suggestion =
              [weight |-> last.data.last_weight, reps |-> last.data.last_reps + 1]

\* C17: more than 30 days since the exercise, both functions suggest a weight
\* of at least 1 and at most last_weight, and last_reps - 1 reps when
\* last_reps > 1, last_reps otherwise.
C17_Deload ==
    (Suggested /\ last.data.days_ago > 30) =>
        \A s \in {last.ret.overload, last.ret.suggestion} :
            /\ s.weight >= 1
            /\ s.weight <= last.data.last_weight
            /\ s.reps = IF last.data.last_reps > 1
                        THEN last.data.last_reps - 1
                        ELSE last.data.last_reps

\* C16 (amended): at most 14 days since the exercise, progressive_overload
\* keeps the weight and suggests last_reps + 1 when last_reps is below 10;
\* progressive_overload_suggestions does so when last_reps is below 6, and
\* from 6 reps on raises the weight and resets the reps to 5.
C16_RepProgressionPerFunction ==
    (Suggested /\ last.data.days_ago <= 14) =>
        /\ last.data.last_reps < 10 =>
              last.ret.overload =
                 [weight |-> last.data.last_weight, reps |-> last.data.last_reps + 1]
        /\ last.data.last_reps < 6 =>
              last.ret.suggestion =
                 [weight |-> last.data.last_weight, reps |-> last.data.last_reps + 1]
        /\ last.data.last_reps >= 6 =>
              /\ last.ret.suggestion.weight > last.data.last_weight
              /\ last.ret.suggestion.reps = 5

C16_Witness ==
    /\ Suggested
    /\ last.data = [last_weight |-> 40, last_reps |-> 8, days_ago |-> 5]
    /\ last.ret.overload = [weight |-> 40, reps |-> 9]
    /\ last.ret.suggestion = [weight |-> 42, reps |-> 5]

-----------------------------------------------------------------------------
(* recovery_check: the muscle groups of the recent workouts, bucketed by   *)
(* the days since each group was last trained.  A workout is given by its  *)
(* days_ago (today minus its parsed date, in whole days; a date up to one  *)
(* day ahead passes the plausibility filter and gives -1) and by the       *)
(* muscle_groups list extracted and inferred from its exercises.           *)

MaxRecent == 2

all_groups ==
    <<"chest", "back", "shoulders", "arms", "biceps", "triceps",
      "legs", "glutes", "calves", "core", "abs">>

\* muscle_group_last_trained after one more workout of the loop
TrackWorkout(m, workout) ==
    IF workout.days_ago > 14 THEN m
    ELSE [g \in DOMAIN m \cup workout.muscle_groups |->
             IF g \in workout.muscle_groups
                /\ (g \notin DOMAIN m \/ workout.days_ago < m[g])
             THEN workout.days_ago
             ELSE m[g]]

RECURSIVE LastTrained(_, _)
LastTrained(m, workouts) ==
    IF workouts = <<>> THEN m
    ELSE LastTrained(TrackWorkout(m, Head(workouts)), Tail(workouts))

\* the filter on the neglected list: "arms" goes when a specific arm group is there
FilterNeglected(neglected) ==
    SelectSeq(neglected,
              LAMBDA g : ~(g = "arms" /\ ({"biceps", "triceps"} \cap Range(neglected) # {})))

\* A variant whose ready bucket has no upper limit of 6 days
MutRecoveryBuckets(m) ==
    LET In(g) == g \in DOMAIN m
    IN  [too_soon  |-> SelectSeq(all_groups, LAMBDA g : In(g) /\ m[g] <= 1),
         optimal   |-> SelectSeq(all_groups, LAMBDA g : In(g) /\ m[g] > 1 /\ m[g] <= 3),
         ready     |-> SelectSeq(all_groups, LAMBDA g : In(g) /\ m[g] > 3),
         neglected |-> FilterNeglected(
                          SelectSeq(all_groups, LAMBDA g : ~In(g)))]

\* the four lists of the response, each in the order of all_groups
RecoveryBuckets(m) ==
    LET In(g) == g \in DOMAIN m
    IN  [too_soon  |-> SelectSeq(all_groups, LAMBDA g : In(g) /\ m[g] <= 1),
         optimal   |-> SelectSeq(all_groups, LAMBDA g : In(g) /\ m[g] > 1 /\ m[g] <= 3),
         ready     |-> SelectSeq(all_groups, LAMBDA g : In(g) /\ m[g] > 3 /\ m[g] <= 6),
         neglected |-> FilterNeglected(
                          SelectSeq(all_groups, LAMBDA g : ~In(g) \/ m[g] > 6))]

RecoveryDays == {-1, 0, 1, 2, 3, 4, 6, 7, 14, 15}

RecoveryGroups ==
    {{"chest", "triceps", "arms"}, {"arms"}, {"biceps", "arms", "back"},
     {"legs", "glutes", "quads"}, {}}

RecentWorkouts ==
    UNION {[1..n -> [days_ago : RecoveryDays, muscle_groups : RecoveryGroups]] :
             n \in 0..MaxRecent}

InitRecovery ==
    /\ now = [day |-> 0, time |-> 0]
    /\ log = <<>>
    /\ index = NoIndex
    /\ threads = {}
    /\ last \in {[LastNone EXCEPT !.data = w] : w \in RecentWorkouts}
    /\ flags = <<>>
    /\ requests = 0

RecoveryCheck ==
    /\ last.op = "none"
    /\ last' = [last EXCEPT
                  !.op = "recovery_check",
                  !.ret = RecoveryBuckets(LastTrained(<<>>, last.data))]
    /\ UNCHANGED <<now, log, index, threads, flags, requests>>

NextRecovery == RecoveryCheck

SpecRecovery == InitRecovery /\ [][NextRecovery]_vars

\* the days-ago values of a group over the workouts of the window
DaysSeen(g) ==
    {last.data[i].days_ago : i \in {j \in 1..Len(last.data) :
                                       /\ last.data[j].days_ago <= 14
                                       /\ g \in last.data[j].muscle_groups}}

\* the bucket a group belongs to by its smallest days-ago
BucketOf(g) ==
    IF DaysSeen(g) = {} THEN "neglected"
    ELSE LET d == CHOOSE x \in DaysSeen(g) : \A y \in DaysSeen(g) : x <= y
         IN  IF d <= 1 THEN "too_soon"
             ELSE IF d <= 3 THEN "optimal"
             ELSE IF d <= 6 THEN "ready"
             ELSE "neglected"

BucketNames == {"too_soon", "optimal", "ready", "neglected"}

\* C18: every group of the canonical list is bucketed by its smallest
\* days-ago over the window: too_soon up to 1 day, optimal 2-3, ready 4-6,
\* neglected from 7 days or when not seen; it is in that bucket and no other,
\* except "arms", which is in no bucket when it would be neglected together
\* with "biceps" or "triceps".
C18_RecoveryBuckets ==
    last.op = "recovery_check" =>
        \A g \in Range(all_groups) : \A b \in BucketNames :
            (g \in Range(last.ret[b])) <=>
                /\ b = BucketOf(g)
                /\ ~( /\ g = "arms"
                      /\ b = "neglected"
                      /\ \E s \in {"biceps", "triceps"} : BucketOf(s) = "neglected")

C18_Witness ==
    /\ last.op = "recovery_check"
    /\ last.data = <<[days_ago |-> 7, muscle_groups |-> {"biceps", "arms", "back"}],
                     [days_ago |-> 0, muscle_groups |-> {"legs", "glutes", "quads"}]>>
    /\ last.ret.too_soon = <<"legs", "glutes">>
    /\ "biceps" \in Range(last.ret.neglected)
    /\ "arms" \notin Range(last.ret.neglected)

-----------------------------------------------------------------------------
(* parse_exercise_line on weight-times-reps lines, and on the line built   *)
(* back from its result as "<exercise> - <first_weight> * <first_reps>".   *)

MaxParts == 2

RepListParts ==
    {[w |-> Bare, r |-> 5], [w |-> Bare, r |-> 8], [w |-> 60, r |-> 4]}

\* "<name> - <weight> * <rep-list>" with up to MaxParts comma-separated parts
ParseLines ==
    {[kind |-> "wr", exercise |-> name, weight |-> weight, parts |-> parts] :
        name \in {"curl", "Bench Press"},
        weight \in {0, 45, 55},
        parts \in UNION {[1..n -> RepListParts] : n \in 0..MaxParts}}

\* f"{exercise} - {first_weight} * {first_reps}" of a parsed exercise
Rebuild(e) ==
    [kind |-> "wr", exercise |-> e.exercise, weight |-> e.first_weight,
     parts |-> <<[w |-> Bare, r |-> e.first_reps]>>]

InitParse ==
    /\ now = [day |-> 0, time |-> 0]
    /\ log = <<>>
    /\ index = NoIndex
    /\ threads = {}
    /\ last \in {[LastNone EXCEPT !.data = line] : line \in ParseLines}
    /\ flags = <<>>
    /\ requests = 0

\* the line is parsed, and the line rebuilt from the result is parsed again
ParseAndReparse ==
    /\ last.op = "none"
    /\ LET parsed == ParseExerciseLine(last.data)
       IN  last' = [last EXCEPT
                      !.op = "parse_exercise_line",
                      !.ret = [parsed   |-> parsed,
                               reparsed |-> IF parsed = <<>> THEN <<>>
                                            ELSE ParseExerciseLine(Rebuild(parsed[1]))]]
    /\ UNCHANGED <<now, log, index, threads, flags, requests>>

NextParse == ParseAndReparse

SpecParse == InitParse /\ [][NextParse]_vars

\* C19: for every accepted weight-times-reps line, the line rebuilt as
\* "<exercise> - <first_weight> * <first_reps>" is accepted too and its first
\* set has the weight and the reps of the first set of the original parse.
C19_RoundTrip ==
    (last.op = "parse_exercise_line" /\ last.ret.parsed # <<>>) =>
        /\ last.ret.reparsed # <<>>
        /\ last.ret.reparsed[1].sets[1] = last.ret.parsed[1].sets[1]

-----------------------------------------------------------------------------
(* Overlapping rebuilds: a stale index, ensure_search_index calls, and     *)
(* workouts logged, updated and deleted while rebuild threads run          *)

\* the one request of a client that this specification lets through
RaceRequest(A) == requests = 0 /\ Request(A)

LogRequest == \E text \in AppTexts : RaceRequest(LogWorkout(text))

UpdateRequest ==
    \E i \in 1..MaxLog : \E text \in UpdateTexts : RaceRequest(UpdateWorkout(i, text))

DeleteRequest == \E i \in 1..MaxLog : RaceRequest(DeleteWorkout(i))

NextRace ==
    \/ StaleEnsure
    \/ LogRequest
    \/ UpdateRequest
    \/ DeleteRequest
    \/ LoadStep
    \/ FinishStep

SpecRace == InitStale /\ [][NextRace]_vars

WorkoutAt(l, p) == Entries(l)[p + 1]

\* C22: after log_workout has prepended a workout and made the incremental
\* 'add' at position 0, every position that was stored in a rule-based
\* category and still is refers to the same workout as before.
C22_PositionsStillRefer ==
    [][ LogRequest =>
            \A c \in {"pr", "chest", "full"} :
                \A p \in Range(index[c]) \cap Range(index'[c]) :
                    p < Len(Entries(log)) =>
                        WorkoutAt(log', p) = WorkoutAt(log, p) ]_vars

\* C23: in every history record with a best weight above 0, best_weight_reps
\* is the rep count of some set performed at best_weight in a strictly
\* earlier workout of that exercise.
C23_RepsObservedAtBestWeight ==
    Evaluated =>
        \A i \in 1..Len(flags) : \A k \in DOMAIN flags[i].history :
            LET h == flags[i].history[k] IN
            h.best_weight > 0 =>
                \E st \in SetsBefore(i, k) :
                    st.weight = h.best_weight /\ st.reps = h.best_weight_reps

\* C24: for every accepted line, first_weight and first_reps are the weight
\* and the reps of the first element of sets.
C24_FirstIsFirstSet ==
    (last.op = "parse_exercise_line" /\ last.ret.parsed # <<>>) =>
        LET e == last.ret.parsed[1] IN
        /\ e.first_weight = e.sets[1].weight
        /\ e.first_reps = e.sets[1].reps

-----------------------------------------------------------------------------
(* update_index_for_workout called directly on a stale index (SpecRefresh) *)

\* one call per behaviour
NextRefresh == requests = 0 /\ Request(AnyUpdateIndexCall)

SpecRefresh == InitStale /\ [][NextRefresh]_vars

\* C25: after update_index_for_workout has completed on an existing index,
\* whatever the operation, the stored workout_hash equals the hash of the
\* current log: ensure_search_index takes its current branch and not the one
\* that starts a rebuild.
C25_UpdateMakesCurrent ==
    (last.op = "update_index" /\ index.present) =>
        /\ index.hash = Hash(log)
        /\ ~NeedsUpdate(index, log)
        /\ ENABLED CurrentEnsure
        /\ ~ENABLED StaleEnsure

\* C25 witness: a 'remove' has just been made on an index that was stale
\* (the log holds an entry with trailing whitespace the index was not built
\* from), and the index is current.
C25_Witness ==
    /\ last.op = "update_index" /\ last.operation = "remove" /\ last.branch = "first"
    /\ log[1].text.pad
    /\ IsCurrent

-----------------------------------------------------------------------------
(* Requests and rebuild threads while no index is stored (SpecAbsent) *)

MaxAbsentRequests == 2

AbsentRequest(A) == requests < MaxAbsentRequests /\ Request(A)

NextAbsent ==
    \/ \E text \in AppTexts : AbsentRequest(LogWorkout(text))
    \/ \E i \in 1..MaxLog : \E text \in UpdateTexts : AbsentRequest(UpdateWorkout(i, text))
    \/ \E i \in 1..MaxLog : AbsentRequest(DeleteWorkout(i))
    \/ \E ai \in AIAnswers : AbsentRequest(EnsureBuild(ai))
    \/ LoadStep
    \/ FinishStep

SpecAbsent == Init /\ [][NextAbsent]_vars

\* C26: the index leaves the absent state only through the full build of
\* ensure_search_index; no other step (update_index_for_workout inside a
\* request, a background rebuild, delete_workout) stores an index while none
\* is stored.
C26_AbsentUntilFullBuild ==
    [][ (~index.present /\ index'.present) =>
            (last'.op = "ensure" /\ last'.branch \in {"build", "build_raised"}) ]_vars

\* C26 witness: a rebuild thread that found no index has ended without
\* writing, after a workout was logged with no index stored.
C26_Witness ==
    /\ last.op = "rebuild" /\ last.branch = "keyerror"
    /\ ~index.present
    /\ log # <<>>

-----------------------------------------------------------------------------
(* ensure_search_index on a current index (SpecStale) *)

\* C27: ensure_search_index called while the stored index is current takes
\* the branch that writes nothing: the stored index is unchanged, no thread
\* is started (so no language-model call is pending that was not before),
\* and the stored index is returned.
C27_CurrentEnsureIsReadOnly ==
    [][ (IsCurrent /\ last'.op = "ensure") =>
            /\ last'.branch = "current"
            /\ index' = index
            /\ threads' = threads
            /\ last'.ret = index ]_vars

\* C27 witness: ensure_search_index has returned a current index with
\* non-empty language-model categories, no thread being in flight.
C27_Witness ==
    /\ last.op = "ensure" /\ last.branch = "current"
    /\ IsCurrent
    /\ last.ret = index
    /\ index.leg # <<>>
    /\ threads = {}

-----------------------------------------------------------------------------
(* Invariants of the stored index under all requests and threads (Spec) *)

\* the five category lists of an index
Categories(idx) == {idx.pr, idx.chest, idx.full, idx.leg, idx.upper}

\* C28: in every stored index every position of every category list is at
\* least 0 and less than the number of workouts currently in the log.
C28_PositionsInRange ==
    index.present =>
        \A cat \in Categories(index) : \A p \in Range(cat) :
            0 <= p /\ p < Len(Entries(log))

\* C30: whenever the stored workout_hash equals the hash of the current log,
\* the stored workout_count is the number of workouts in the log.
C30_CountMatchesWhenCurrent ==
    IsCurrent => index.count = Len(Entries(log))

----------------------------------------------------------------------------
(* Every writer of the rule-based categories together (SpecUnique) *)

NextUnique ==
    \/ \E ai \in AIAnswers : Request(EnsureBuild(ai))
    \/ Request(AnyUpdateIndexCall)
    \/ \E text \in AppTexts : Request(LogWorkout(text))
    \/ \E i \in 1..MaxLog : \E text \in UpdateTexts : Request(UpdateWorkout(i, text))
    \/ \E i \in 1..MaxLog : Request(DeleteWorkout(i))
    \/ LoadStep
    \/ FinishStep

SpecUnique == Init /\ [][NextUnique]_vars

\* C29: in every stored index none of the three rule-based category lists
\* contains the same position twice.
C29_NoDuplicatePositions ==
    index.present =>
        \A cat \in {index.pr, index.chest, index.full} :
            \A i, j \in 1..Len(cat) : cat[i] = cat[j] => i = j

\* C29 witness: the same 'update' has just been made twice in a row on an
\* index whose 'chest workout' list holds two positions, the updated one among
\* them.
C29_Witness ==
    /\ last.op = "update_index" /\ last.operation = "update" /\ last.branch = "repeat"
    /\ index.present
    /\ Len(index.chest) >= 2
    /\ last.pos \in Range(index.chest)

====
